---- MODULE Spec2Model ----
(***************************************************************************)
(* The lighthouse_audit tool of playwright-mcp (src/tools/lighthouse.ts). *)
(*                                                                         *)
(* One invocation of `handle` is an async function: it runs to completion *)
(* between its three awaits (context.ensureTab, fs.mkdir, playAudit), so   *)
(* each action below is one such run-to-completion segment.  Strings the   *)
(* handler takes apart (the browser launch arguments) are sequences of     *)
(* one-character strings; JavaScript values of mixed type are wrapped in   *)
(* one-field records (Num, Str, Null, Undefined, NaN).                     *)
(***************************************************************************)
EXTENDS Integers, Sequences, FiniteSets, TLC

VARIABLES
    launchOptions,    \* context.options.launchOptions of the host
    captureSnapshot,  \* the factory's argument
    clock,            \* what Date.now() returns, in ms
    dirExists,        \* the report directory is on disk
    pc,               \* per invocation: where the async handler is suspended
    params,           \* per invocation: the raw params it was called with
    opts,             \* per invocation: lighthouseAuditSchema.parse(params)
    port,             \* per invocation: the local `port`
    reportFileBase,   \* per invocation: the local `reportFileBase`
    audits,           \* per invocation: the argument of every playAudit call
    raised,           \* per invocation: the rejection an awaited callee produced
    lhr,              \* per invocation: result.lhr.categories of the engine
    error,            \* per invocation: what the handler's promise rejected with
    response,         \* per invocation: what the handler's promise resolved to
    trace             \* per invocation: the steps performed so far, in order

vars == <<launchOptions, captureSnapshot, clock, dirExists, pc, params, opts,
          port, reportFileBase, audits, raised, lhr, error, response, trace>>

---------------------------------------------------------------------------
\* Bounds of the model.
MaxArgs == 2        \* longest launch-argument list
MaxClock == 1       \* last clock value (ms)
NumCalls == 2       \* overlapping invocations in SpecConc

Calls == 1..NumCalls

---------------------------------------------------------------------------
\* JavaScript values.
Undefined == [undefined |-> TRUE]
Null == [null |-> TRUE]
NaN == [nan |-> TRUE]
Num(n) == [num |-> n]
Str(s) == [str |-> s]
IsNum(v) == DOMAIN v = {"num"}
IsStr(v) == DOMAIN v = {"str"}

Has(obj, key) == key \in DOMAIN obj

---------------------------------------------------------------------------
\* 1 schema

Categories == {"performance", "accessibility", "seo", "best-practices", "pwa"}
FormFactors == {"desktop", "mobile"}
Outputs == {"html", "json"}

\* z.array(z.enum([...])): every element is one of the enumerated values
ValidCategories(v) == \A k \in DOMAIN v : v[k] \in Categories

\* z.enum(['desktop','mobile'])
ValidFormFactor(v) == v \in FormFactors

\* the output schema written as z.string(): no value is refused
ValidOutputAny(v) == TRUE

\* z.enum(['html','json'])
ValidOutput(v) == v \in Outputs

\* z.record(z.string(), z.number()): every value is a number
ValidThresholds(v) == \A k \in DOMAIN v : IsNum(v[k])

\* lighthouseAuditSchema.parse succeeds (an absent key is valid: it has a
\* default, or is optional)
SchemaAccepts(p) ==
    /\ Has(p, "categories") => ValidCategories(p.categories)
    /\ Has(p, "formFactor") => ValidFormFactor(p.formFactor)
    /\ Has(p, "output") => ValidOutput(p.output)
    /\ Has(p, "thresholds") => ValidThresholds(p.thresholds)

\* the value lighthouseAuditSchema.parse returns: defaults filled in
SchemaParse(p) ==
    [categories |-> IF Has(p, "categories") THEN p.categories ELSE <<"accessibility">>,
     formFactor |-> IF Has(p, "formFactor") THEN p.formFactor ELSE "desktop",
     output |-> IF Has(p, "output") THEN p.output ELSE "html",
     thresholds |-> IF Has(p, "thresholds") THEN p.thresholds ELSE Undefined]

ZodError == "ZodError"

---------------------------------------------------------------------------
\* Strings as sequences of characters.

DebugPortFlag ==
    <<"-", "-", "r", "e", "m", "o", "t", "e", "-", "d", "e", "b", "u", "g",
      "g", "i", "n", "g", "-", "p", "o", "r", "t", "=">>

\* String.prototype.includes in place of startsWith
Includes(s, prefix) ==
    \E k \in 1..Len(s) :
        /\ k + Len(prefix) - 1 <= Len(s)
        /\ SubSeq(s, k, k + Len(prefix) - 1) = prefix

\* String.prototype.startsWith
StartsWith(s, prefix) ==
    /\ Len(s) >= Len(prefix)
    /\ SubSeq(s, 1, Len(prefix)) = prefix

\* String.prototype.split with a one-character separator
RECURSIVE Split(_, _)
Split(s, sep) ==
    IF \A k \in 1..Len(s) : s[k] # sep
    THEN <<s>>
    ELSE LET k == CHOOSE j \in 1..Len(s) :
                      /\ s[j] = sep
                      /\ \A m \in 1..(j - 1) : s[m] # sep
         IN <<SubSeq(s, 1, k - 1)>> \o Split(SubSeq(s, k + 1, Len(s)), sep)

\* Array.prototype.findLast in place of find
FindLastDebugPortArg(args) ==
    IF \E k \in 1..Len(args) : StartsWith(args[k], DebugPortFlag)
    THEN Str(args[CHOOSE k \in 1..Len(args) :
                      /\ StartsWith(args[k], DebugPortFlag)
                      /\ \A m \in (k + 1)..Len(args) : ~StartsWith(args[m], DebugPortFlag)])
    ELSE Undefined

\* Array.prototype.find: the first element that satisfies the test
FindDebugPortArg(args) ==
    IF \E k \in 1..Len(args) : StartsWith(args[k], DebugPortFlag)
    THEN Str(args[CHOOSE k \in 1..Len(args) :
                      /\ StartsWith(args[k], DebugPortFlag)
                      /\ \A m \in 1..(k - 1) : ~StartsWith(args[m], DebugPortFlag)])
    ELSE Undefined

\* launchOptions?.args?.find(arg => arg.startsWith(...))?.split('=')[1]
DerivePort(lo) ==
    IF lo = Undefined \/ ~Has(lo, "args")
    THEN Undefined
    ELSE LET found == FindDebugPortArg(lo.args)
         IN IF found = Undefined
            THEN Undefined
            ELSE LET parts == Split(found.str, "=")
                 IN IF Len(parts) >= 2 THEN Str(parts[2]) ELSE Undefined

\* !port : undefined and the empty string are falsy
Falsy(p) == p = Undefined \/ p = Str(<<>>)

DigitValue(c) ==
    CASE c = "0" -> 0 [] c = "1" -> 1 [] c = "2" -> 2 [] c = "3" -> 3
      [] c = "4" -> 4 [] c = "5" -> 5 [] c = "6" -> 6 [] c = "7" -> 7
      [] c = "8" -> 8 [] c = "9" -> 9
IsDigit(c) == c \in {"0", "1", "2", "3", "4", "5", "6", "7", "8", "9"}

\* the value of the longest run of digits s starts with; -1 when there is none
RECURSIVE LeadingDigits(_, _, _)
LeadingDigits(s, seen, acc) ==
    IF s # <<>> /\ IsDigit(Head(s))
    THEN LeadingDigits(Tail(s), TRUE, 10 * acc + DigitValue(Head(s)))
    ELSE IF seen THEN acc ELSE -1

RECURSIVE SkipSpaces(_)
SkipSpaces(s) == IF s # <<>> /\ Head(s) = " " THEN SkipSpaces(Tail(s)) ELSE s

\* parseInt(s, 10): leading white space, an optional sign, then the digits up
\* to the first character that is none; NaN when no digit is there
ParseInt(s) ==
    LET t == SkipSpaces(s)
        signed == t # <<>> /\ Head(t) \in {"+", "-"}
        u == IF signed THEN Tail(t) ELSE t
        n == LeadingDigits(u, FALSE, 0)
    IN IF n < 0 THEN NaN
       ELSE IF signed /\ Head(t) = "-" THEN Num(0 - n) ELSE Num(n)

ConfigurationError ==
    "The Playwright browser was not launched with --remote-debugging-port=<n>. Restart the MCP server with that flag so Lighthouse can attach."

---------------------------------------------------------------------------
\* The host, the file system and the audit engine.

HostPage == "page"                  \* tab.page, borrowed from the host
Cwd == <<"cwd">>                    \* process.cwd()

\* path.join of two relative pieces
PathJoin(a, b) == a \o <<"/">> \o b

DigitChar(d) ==
    CASE d = 0 -> "0" [] d = 1 -> "1" [] d = 2 -> "2" [] d = 3 -> "3"
      [] d = 4 -> "4" [] d = 5 -> "5" [] d = 6 -> "6" [] d = 7 -> "7"
      [] d = 8 -> "8" [] d = 9 -> "9"

\* the decimal digits a number has in a template literal
RECURSIVE DecimalString(_)
DecimalString(n) ==
    IF n < 10 THEN <<DigitChar(n)>>
    ELSE DecimalString(n \div 10) \o <<DigitChar(n % 10)>>

\* path.join(process.cwd(), "lighthouse-reports")
ReportDir == PathJoin(Cwd, <<"lighthouse-reports">>)

\* `lighthouse-${Date.now()}`
ReportFileBase(now) == <<"lighthouse-">> \o DecimalString(now)

\* both formats requested whatever opts.output is
FormatsBoth(o) == [html |-> TRUE, json |-> TRUE]

\* const formats = { html: opts.output === "html", json: opts.output === "json" }
Formats(o) == [html |-> o.output = "html", json |-> o.output = "json"]

\* the argument of playAudit
AuditArgs(o, p, base) ==
    [page |-> HostPage,
     port |-> ParseInt(p.str),
     thresholds |-> o.thresholds,
     opts |-> [logLevel |-> "error"],
     reports |-> [formats |-> Formats(o), name |-> base, directory |-> ReportDir]]

\* generatedFiles
GeneratedFiles(formats, base) ==
    (IF formats.html
     THEN <<[path |-> PathJoin(ReportDir, base \o <<".html">>), mediaType |-> "text/html"]>>
     ELSE <<>>)
    \o
    (IF formats.json
     THEN <<[path |-> PathJoin(ReportDir, base \o <<".json">>), mediaType |-> "application/json"]>>
     ELSE <<>>)

\* v.score ?? 0 in place of v.score
ScoresDefaulted(categories) ==
    [k \in DOMAIN categories |->
        IF categories[k].score = Null THEN Num(0) ELSE categories[k].score]

\* Object.fromEntries(Object.entries(result.lhr.categories).map(([k, v]) => [k, v.score]))
Scores(categories) == [k \in DOMAIN categories |-> categories[k].score]

\* the object the handler returns
Response(o, p, base, categories, snapshot) ==
    [code |-> << <<"// Lighthouse audit via playwright-lighthouse">>,
                 <<"await playAudit({ page, port: ">> \o p.str \o <<", /* ... */ });">> >>,
     files |-> GeneratedFiles(Formats(o), base),
     captureSnapshot |-> snapshot,
     waitForNetwork |-> FALSE,
     data |-> [scores |-> Scores(categories)]]

\* a catch block that rethrows a new error
PropagateWrapped(e) == "Error: Lighthouse audit failed"

\* an awaited promise that rejects makes the async handler reject with the
\* same value: the handler has no try/catch
Propagate(e) == e

NoError == "none"

---------------------------------------------------------------------------
\* Inputs.

BoundedSeq(S, n) == UNION {[1..m -> S] : m \in 0..n}

ArgEmbedded == <<"x">> \o DebugPortFlag \o <<"9", "2">>
ArgPort92 == DebugPortFlag \o <<"9", "2">>
ArgPort07 == DebugPortFlag \o <<"0", "7">>
ArgPortEmpty == DebugPortFlag
ArgPortJunk == DebugPortFlag \o <<"a", "=", "9", "2">>

ArgPool == {ArgEmbedded, ArgPort92, ArgPort07, ArgPortEmpty, ArgPortJunk}

\* launchOptions: absent, present without args, or with an args list
LaunchOptionsAll ==
    {Undefined, [headless |-> TRUE]}
        \cup {[args |-> a] : a \in BoundedSeq(ArgPool, MaxArgs)}

LaunchOptionsConc ==
    {[headless |-> TRUE], [args |-> <<ArgEmbedded, ArgPort92>>]}

\* an object with the key k bound to one of vals, or without the key
Field(k, vals) == {<<>>} \cup {k :> v : v \in vals}

RawParams ==
    {c @@ f @@ o @@ t :
        c \in Field("categories", {<<"performance", "seo">>, <<"performance", "bogus">>}),
        f \in Field("formFactor", {"mobile", "tablet"}),
        o \in Field("output", {"html", "json", "pdf"}),
        t \in Field("thresholds", {"performance" :> Num(50),
                                   ("performance" :> Num(150)) @@ ("seo" :> Num(0 - 5)),
                                   "performance" :> Str("high")})}

RawParamsConc ==
    {<<>>, "output" :> "json", "formFactor" :> "tablet"}

\* result.lhr.categories: whatever categories the engine reports, each with a
\* score in [0,1] or null
ResultNames == {"accessibility", "performance"}
ScoreValues == {Null, Num(1)}
EngineResults ==
    UNION {[names -> {[score |-> s] : s \in ScoreValues}] : names \in SUBSET ResultNames}

EngineResultsConc ==
    {[k \in {"accessibility"} |-> [score |-> Num(1)]]}

TabErrors == {"TabError"}
FsErrors == {"EACCES"}
EngineErrors == {"ThresholdError", "NavigationError", "AttachError"}

---------------------------------------------------------------------------
\* 2 handler

Init ==
    /\ launchOptions \in LaunchOptionsAll
    /\ captureSnapshot \in BOOLEAN
    /\ clock = 0
    /\ dirExists = FALSE
    /\ pc = [i \in Calls |-> "Idle"]
    /\ params = [i \in Calls |-> Undefined]
    /\ opts = [i \in Calls |-> Undefined]
    /\ port = [i \in Calls |-> Undefined]
    /\ reportFileBase = [i \in Calls |-> Undefined]
    /\ audits = [i \in Calls |-> <<>>]
    /\ raised = [i \in Calls |-> NoError]
    /\ lhr = [i \in Calls |-> Undefined]
    /\ error = [i \in Calls |-> NoError]
    /\ response = [i \in Calls |-> Undefined]
    /\ trace = [i \in Calls |-> <<>>]

InitConc ==
    /\ Init
    /\ launchOptions \in LaunchOptionsConc
    /\ captureSnapshot = TRUE

\* the handler rejects with e
Throw(i, e, steps) ==
    /\ pc' = [pc EXCEPT ![i] = "Failed"]
    /\ error' = [error EXCEPT ![i] = e]
    /\ trace' = [trace EXCEPT ![i] = @ \o steps \o <<"Failed">>]

\* handle(context, params) up to `await context.ensureTab()`
Handle(i, p) ==
    /\ pc[i] = "Idle"
    /\ params' = [params EXCEPT ![i] = p]
    /\ IF SchemaAccepts(p)
       THEN /\ opts' = [opts EXCEPT ![i] = SchemaParse(p)]
            /\ pc' = [pc EXCEPT ![i] = "awaitTab"]
            /\ trace' = [trace EXCEPT ![i] = @ \o <<"Validating", "ensureTab">>]
            /\ UNCHANGED error
       ELSE /\ Throw(i, ZodError, <<"Validating">>)
            /\ UNCHANGED opts
    /\ UNCHANGED <<launchOptions, captureSnapshot, clock, dirExists, port,
                   reportFileBase, audits, raised, lhr, response>>

\* ensureTab resolved: derive the port, then up to `await fs.mkdir(...)`
TabResolved(i) ==
    /\ pc[i] = "awaitTab"
    /\ LET p == DerivePort(launchOptions)
       IN /\ port' = [port EXCEPT ![i] = p]
          /\ IF Falsy(p)
             THEN Throw(i, ConfigurationError, <<"AttachmentResolving">>)
             ELSE /\ pc' = [pc EXCEPT ![i] = "awaitMkdir"]
                  /\ trace' = [trace EXCEPT ![i] = @ \o <<"AttachmentResolving", "mkdir">>]
                  /\ UNCHANGED error
    /\ UNCHANGED <<launchOptions, captureSnapshot, clock, dirExists, params, opts,
                   reportFileBase, audits, raised, lhr, response>>

\* ensureTab rejected
TabRejected(i, e) ==
    /\ pc[i] = "awaitTab"
    /\ raised' = [raised EXCEPT ![i] = e]
    /\ Throw(i, Propagate(e), <<>>)
    /\ UNCHANGED <<launchOptions, captureSnapshot, clock, dirExists, params, opts,
                   port, reportFileBase, audits, lhr, response>>

\* fs.mkdir resolved: name the report, then up to `await playAudit(...)`
MkdirResolved(i) ==
    /\ pc[i] = "awaitMkdir"
    /\ dirExists' = TRUE
    /\ LET base == ReportFileBase(clock)
       IN /\ reportFileBase' = [reportFileBase EXCEPT ![i] = Str(base)]
          /\ audits' = [audits EXCEPT ![i] = Append(@, AuditArgs(opts[i], port[i], base))]
    /\ pc' = [pc EXCEPT ![i] = "awaitAudit"]
    /\ trace' = [trace EXCEPT ![i] = @ \o <<"AuditRunning">>]
    /\ UNCHANGED <<launchOptions, captureSnapshot, clock, params, opts, port,
                   raised, lhr, error, response>>

\* fs.mkdir rejected
MkdirRejected(i, e) ==
    /\ pc[i] = "awaitMkdir"
    /\ raised' = [raised EXCEPT ![i] = e]
    /\ Throw(i, Propagate(e), <<>>)
    /\ UNCHANGED <<launchOptions, captureSnapshot, clock, dirExists, params, opts,
                   port, reportFileBase, audits, lhr, response>>

\* playAudit resolved: assemble the response and return it
AuditResolved(i, categories) ==
    /\ pc[i] = "awaitAudit"
    /\ lhr' = [lhr EXCEPT ![i] = categories]
    /\ response' = [response EXCEPT ![i] =
                       Response(opts[i], port[i], reportFileBase[i].str, categories,
                                captureSnapshot)]
    /\ pc' = [pc EXCEPT ![i] = "Done"]
    /\ trace' = [trace EXCEPT ![i] = @ \o <<"Assembling", "Done">>]
    /\ UNCHANGED <<launchOptions, captureSnapshot, clock, dirExists, params, opts,
                   port, reportFileBase, audits, raised, error>>

\* a handler that calls playAudit again when it rejects
AuditRejectedRetry(i, e) ==
    /\ pc[i] = "awaitAudit"
    /\ Len(audits[i]) < 3
    /\ raised' = [raised EXCEPT ![i] = e]
    /\ audits' = [audits EXCEPT ![i] =
                     Append(@, AuditArgs(opts[i], port[i], reportFileBase[i].str))]
    /\ trace' = [trace EXCEPT ![i] = @ \o <<"AuditRunning">>]
    /\ UNCHANGED <<launchOptions, captureSnapshot, clock, dirExists, pc, params, opts,
                   port, reportFileBase, lhr, error, response>>

\* playAudit rejected; the engine fails on a threshold only when it was given some
AuditRejected(i, e) ==
    /\ pc[i] = "awaitAudit"
    /\ e = "ThresholdError" => opts[i].thresholds # Undefined
    /\ raised' = [raised EXCEPT ![i] = e]
    /\ Throw(i, Propagate(e), <<>>)
    /\ UNCHANGED <<launchOptions, captureSnapshot, clock, dirExists, params, opts,
                   port, reportFileBase, audits, lhr, response>>

\* a millisecond passes
Tick ==
    /\ clock < MaxClock
    /\ clock' = clock + 1
    /\ UNCHANGED <<launchOptions, captureSnapshot, dirExists, pc, params, opts, port,
                   reportFileBase, audits, raised, lhr, error, response, trace>>

\* one invocation, over every input
Next ==
    \/ \E p \in RawParams : Handle(1, p)
    \/ TabResolved(1)
    \/ \E e \in TabErrors : TabRejected(1, e)
    \/ MkdirResolved(1)
    \/ \E e \in FsErrors : MkdirRejected(1, e)
    \/ \E r \in EngineResults : AuditResolved(1, r)
    \/ \E e \in EngineErrors : AuditRejected(1, e)
    \/ Tick

Spec == Init /\ [][Next]_vars

\* overlapping invocations
NextConc ==
    \/ \E i \in Calls :
          \/ \E p \in RawParamsConc : Handle(i, p)
          \/ TabResolved(i)
          \/ \E e \in TabErrors : TabRejected(i, e)
          \/ MkdirResolved(i)
          \/ \E e \in FsErrors : MkdirRejected(i, e)
          \/ \E r \in EngineResultsConc : AuditResolved(i, r)
          \/ \E e \in EngineErrors : AuditRejected(i, e)
    \/ Tick

SpecConc == InitConc /\ [][NextConc]_vars

---------------------------------------------------------------------------
\* Properties.

Terminal == {"Done", "Failed"}

\* the argument a starts with --remote-debugging-port= (character by character)
HasDebugPortFlag(a) ==
    /\ Len(a) >= Len(DebugPortFlag)
    /\ \A k \in 1..Len(DebugPortFlag) : a[k] = DebugPortFlag[k]

\* the launch arguments are absent or hold no --remote-debugging-port= entry
NoDebugPortEntry ==
    \/ launchOptions = Undefined
    \/ ~Has(launchOptions, "args")
    \/ \A k \in 1..Len(launchOptions.args) : ~HasDebugPortFlag(launchOptions.args[k])

\* entries --remote-debugging-port=<n> of the argument pool, with their <n>
IntegerPortArgs == {<<ArgPort92, 92>>, <<ArgPort07, 7>>}

\* C1: two invocations never pass the same report base filename to the engine
\* (nor report the same file path), even when they read the same clock value.
C1_DistinctReportFileBases ==
    \A i \in Calls : \A j \in Calls \ {i} :
        \A a \in 1..Len(audits[i]) : \A b \in 1..Len(audits[j]) :
            audits[i][a].reports.name # audits[j][b].reports.name

\* a value of categories, formFactor or output outside its enumerated domain
InvalidEnumInput(p) ==
    \/ /\ Has(p, "categories")
       /\ \E k \in 1..Len(p.categories) :
             p.categories[k] \notin
                 {"performance", "accessibility", "seo", "best-practices", "pwa"}
    \/ Has(p, "formFactor") /\ p.formFactor \notin {"desktop", "mobile"}
    \/ Has(p, "output") /\ p.output \notin {"html", "json"}

\* C2: an input with a categories, formFactor or output value outside its
\* enumerated domain makes the handler fail with the validation error, as its
\* first step and without ever invoking the engine, whatever the launch
\* arguments are.
C2_InvalidEnumRejected ==
    \A i \in Calls :
        (pc[i] # "Idle" /\ InvalidEnumInput(params[i])) =>
            /\ pc[i] = "Failed"
            /\ error[i] = ZodError
            /\ audits[i] = <<>>
            /\ response[i] = Undefined
            /\ trace[i] = <<"Validating", "Failed">>

C2_Witness ==
    \E i \in Calls :
        /\ pc[i] = "Failed"
        /\ InvalidEnumInput(params[i])
        /\ ~NoDebugPortEntry
        /\ ~Falsy(DerivePort(launchOptions))

\* a thresholds map with a minimum score outside [0,100]
ThresholdOutOfRange(p) ==
    /\ Has(p, "thresholds")
    /\ \E k \in DOMAIN p.thresholds :
          /\ IsNum(p.thresholds[k])
          /\ (p.thresholds[k].num < 0 \/ p.thresholds[k].num > 100)

\* C3: an input whose thresholds map holds a minimum score outside [0,100]
\* fails validation: the engine is never invoked and no response is returned.
C3_ThresholdRangeRejected ==
    \A i \in Calls :
        (pc[i] # "Idle" /\ ThresholdOutOfRange(params[i])) =>
            /\ pc[i] = "Failed"
            /\ error[i] = ZodError
            /\ audits[i] = <<>>
            /\ response[i] = Undefined

\* C4 as stated: a valid request under launch arguments without a
\* --remote-debugging-port= entry ends in the configuration error, the engine
\* never invoked.
C4_AlwaysConfigurationError ==
    \A i \in Calls :
        (pc[i] \in Terminal /\ SchemaAccepts(params[i]) /\ NoDebugPortEntry) =>
            /\ pc[i] = "Failed"
            /\ error[i] = ConfigurationError
            /\ audits[i] = <<>>

\* C4 amended: a valid request under launch arguments without a
\* --remote-debugging-port= entry never invokes the engine, never creates the
\* report directory and returns no response; it fails with the configuration
\* error once ensureTab has resolved, and with ensureTab's own rejection when
\* ensureTab rejects.
C4_ConfigurationErrorBeforeEngine ==
    \A i \in Calls :
        (pc[i] # "Idle" /\ SchemaAccepts(params[i]) /\ NoDebugPortEntry) =>
            /\ pc[i] \in {"awaitTab", "Failed"}
            /\ audits[i] = <<>>
            /\ response[i] = Undefined
            /\ \A k \in 1..Len(trace[i]) : trace[i][k] \notin {"mkdir", "AuditRunning"}
            /\ pc[i] = "Failed" =>
                  error[i] = IF raised[i] = NoError THEN ConfigurationError ELSE raised[i]
            /\ (pc[i] = "Failed" /\ raised[i] # NoError) => raised[i] \in TabErrors

C4_Witness ==
    \E i \in Calls :
        /\ pc[i] = "Failed"
        /\ error[i] = ConfigurationError
        /\ SchemaAccepts(params[i])
        /\ NoDebugPortEntry
        /\ launchOptions # Undefined
        /\ Has(launchOptions, "args")
        /\ launchOptions.args # <<>>

\* C5 as stated: whenever the launch arguments hold an entry
\* --remote-debugging-port=<n>, anywhere, the port passed to the engine is n.
C5_AnyEntryDecidesPort ==
    \A i \in Calls : \A a \in 1..Len(audits[i]) : \A e \in IntegerPortArgs :
        (\E k \in 1..Len(launchOptions.args) : launchOptions.args[k] = e[1]) =>
            audits[i][a].port = Num(e[2])

\* the first launch argument that starts with --remote-debugging-port= is arg
FirstDebugPortEntryIs(arg) ==
    /\ launchOptions # Undefined
    /\ Has(launchOptions, "args")
    /\ \E k \in 1..Len(launchOptions.args) :
          /\ launchOptions.args[k] = arg
          /\ \A m \in 1..(k - 1) : ~HasDebugPortFlag(launchOptions.args[m])

\* C5 amended: when the FIRST launch argument starting with
\* --remote-debugging-port= is --remote-debugging-port=<n>, the handler does
\* not fail with the configuration error and the port passed to the engine is
\* the integer n, whatever the other arguments are (later entries with the
\* same flag and arguments with further = characters included).
C5_FirstEntryDecidesPort ==
    \A i \in Calls : \A e \in IntegerPortArgs :
        FirstDebugPortEntryIs(e[1]) =>
            /\ error[i] # ConfigurationError
            /\ pc[i] \in {"awaitMkdir", "awaitAudit", "Done"} => port[i] # Undefined
            /\ pc[i] \in {"awaitAudit", "Done"} => Len(audits[i]) = 1
            /\ \A a \in 1..Len(audits[i]) : audits[i][a].port = Num(e[2])

C5_Witness ==
    \E i \in Calls :
        /\ FirstDebugPortEntryIs(ArgPort07)
        /\ launchOptions.args = <<ArgPort07, ArgPort92>>
        /\ Len(audits[i]) = 1
        /\ audits[i][1].port = Num(7)

\* the normalized requests that differ from o in categories only, or in
\* formFactor only
DifferingInSelection(o) ==
    {[o EXCEPT !.categories = c] :
        c \in {<<"accessibility">>, <<"performance", "seo">>} \ {o.categories}}
    \cup {[o EXCEPT !.formFactor = f] : f \in {"desktop", "mobile"} \ {o.formFactor}}

\* C6: the engine invocation carries the request's categories and formFactor:
\* the invocation made for a request differs from the one the handler makes,
\* in the same circumstances, for a request that differs only in categories
\* or only in formFactor.
C6_SelectionReachesEngine ==
    \A i \in Calls : \A a \in 1..Len(audits[i]) :
        \A o \in DifferingInSelection(opts[i]) :
            audits[i][a] # AuditArgs(o, port[i], reportFileBase[i].str)

\* C7: a successful call reports exactly one file, of the requested format
\* (html when output is omitted), at <directory>/<base>.<ext> for the
\* directory and base name passed to the engine, whose format flags request
\* exactly that format.
C7_OneFileOfRequestedFormat ==
    \A i \in Calls :
        pc[i] = "Done" =>
            LET out == IF Has(params[i], "output") THEN params[i].output ELSE "html"
                sent == audits[i][1].reports
                files == response[i].files
            IN /\ Len(audits[i]) = 1
               /\ Len(files) = 1
               /\ out \in {"html", "json"}
               /\ files[1].mediaType =
                     (IF out = "html" THEN "text/html" ELSE "application/json")
               /\ files[1].path =
                     sent.directory \o <<"/">> \o sent.name
                         \o (IF out = "html" THEN <<".html">> ELSE <<".json">>)
               /\ sent.formats = [html |-> out = "html", json |-> out = "json"]

C7_Witness ==
    \E i \in Calls :
        /\ pc[i] = "Done"
        /\ Has(params[i], "output")
        /\ params[i].output = "json"
        /\ response[i].files[1].mediaType = "application/json"

\* C8: in a successful call the keys of data.scores are exactly the category
\* names of the engine's lhr.categories, each with that category's score as
\* the engine gave it (null included).
C8_ScoresMirrorEngineResult ==
    \A i \in Calls :
        pc[i] = "Done" =>
            /\ DOMAIN response[i].data.scores = DOMAIN lhr[i]
            /\ \A k \in DOMAIN lhr[i] : response[i].data.scores[k] = lhr[i][k].score

C8_Witness ==
    \E i \in Calls :
        /\ pc[i] = "Done"
        /\ DOMAIN lhr[i] = {"accessibility", "performance"}
        /\ opts[i].categories = <<"performance", "seo">>
        /\ lhr[i]["accessibility"].score = Null
        /\ lhr[i]["performance"].score = Num(1)

\* C9: when the engine call or the directory creation rejects, the handler
\* rejects with that same error, returns no response, and has invoked the
\* engine once (engine failure) or not at all (directory failure).
C9_ErrorsPropagateUnchanged ==
    \A i \in Calls :
        raised[i] \in EngineErrors \cup FsErrors =>
            /\ pc[i] = "Failed"
            /\ error[i] = raised[i]
            /\ response[i] = Undefined
            /\ Len(audits[i]) = (IF raised[i] \in EngineErrors THEN 1 ELSE 0)
            /\ raised[i] = "ThresholdError" => opts[i].thresholds # Undefined

C9_Witness ==
    \E i \in Calls :
        /\ raised[i] = "ThresholdError"
        /\ error[i] = "ThresholdError"
        /\ pc[i] = "Failed"

\* the steps of an invocation, in order
Phases ==
    <<"Validating", "ensureTab", "AttachmentResolving", "mkdir", "AuditRunning",
      "Assembling", "Done">>

Count(s, x) == Cardinality({k \in 1..Len(s) : s[k] = x})

\* C10: the steps of every invocation are an initial part of Validating,
\* ensureTab, AttachmentResolving, mkdir, AuditRunning, Assembling, Done, or
\* such a part followed by Failed and nothing more; the engine is invoked at
\* most once, exactly once before a response exists, and only after the port
\* was resolved and the report directory created.
C10_PhasesInOrder ==
    \A i \in Calls :
        /\ \E n \in 0..Len(Phases) :
              \/ trace[i] = SubSeq(Phases, 1, n)
              \/ trace[i] = SubSeq(Phases, 1, n) \o <<"Failed">>
        /\ (pc[i] = "Failed") = (trace[i] # <<>> /\ trace[i][Len(trace[i])] = "Failed")
        /\ (pc[i] = "Done") = (trace[i] = Phases)
        /\ Len(audits[i]) = Count(trace[i], "AuditRunning")
        /\ Len(audits[i]) <= 1
        /\ response[i] # Undefined => (pc[i] = "Done" /\ Len(audits[i]) = 1)
        /\ audits[i] # <<>> => (~Falsy(port[i]) /\ dirExists)

C10_Witness ==
    \E i \in Calls : \E j \in Calls :
        /\ pc[i] = "Done"
        /\ trace[j] = SubSeq(Phases, 1, 5) \o <<"Failed">>
        /\ reportFileBase[i] = reportFileBase[j]

====
